---- MODULE Spec2Model ----
(***************************************************************************)
(* Model of the KIS trading facade (src/main.py).  Every tool is an async  *)
(* handler that issues blocking brokerage calls through asyncio.to_thread  *)
(* and awaits them.  A handler is modelled as a small process: the action  *)
(* that starts it runs the code up to its first await (issuing the backend *)
(* call), and one action per await resumes it with what the backend        *)
(* returned (a value picked from a bounded set, or an exception).  The     *)
(* brokerage backend is an opaque collaborator: its replies are inputs.    *)
(*                                                                         *)
(* Decimal amounts of the backend (quantities, won amounts, prices) are    *)
(* whole numbers for the domestic instruments the tools accept (6-digit    *)
(* codes) and are represented by integers.                                 *)
(***************************************************************************)
EXTENDS Integers, Sequences, FiniteSets, TLC

VARIABLES
    pc,          \* position of the running handler: "idle", an await label, or "done"
    args,        \* tool name and arguments of the running invocation
    locals,      \* local variables of the running handler that are live across awaits
    outcome,     \* what the invocation returned or raised
    calls,       \* backend calls issued by the running invocation, in order
    placed,      \* number of place_stock_order invocations so far
    submitted,   \* number of order submissions (buy or sell) the backend received so far
    backend,     \* the brokerage's holdings and pending orders (its own state)
    history,     \* the backend states that existed since the running call started
    tasks,       \* the invocations in progress on the event loop, by slot
    loop         \* 0 when the event loop thread is free, else the slot whose call holds it

vars == <<pc, args, locals, outcome, calls, placed, submitted,
          backend, history, tasks, loop>>

(* What the handlers of one invocation, taken alone, never touch *)
env == <<backend, history, tasks, loop>>

----------------------------------------------------------------------------
(* Bounds of the model *)

MaxHoldings == 2      \* holdings in a balance snapshot
MaxOrders == 2        \* orders in a pending-order snapshot
MaxQty == 1           \* largest holding quantity / pending quantity of one order
MaxCash == 5          \* largest withdrawable cash amount
MaxPrice == 3         \* largest price (argument or quote)
TicksPerMinute == 2   \* clock readings per minute of the day
MaxOrderQty == 2      \* largest quantity of an order request
MaxInvocations == 2   \* place_stock_order invocations in one run
MaxSnapshot == 3      \* orders in the snapshot cancel_stock_order scans

Symbols == {"005930", "000660"}

NoArgs == [op |-> "none"]
NoLocals == [at |-> "none"]
NoOutcome == [kind |-> "none"]

Max(a, b) == IF a >= b THEN a ELSE b

(* All sequences over S of length at most n *)
SeqsUpTo(S, n) == UNION {[1..k -> S] : k \in 0..n}

----------------------------------------------------------------------------
(* Exceptions: every handler body is wrapped in try / except Exception,    *)
(* which re-raises a ToolError whose message is the handler's prefix       *)
(* followed by the text of the caught exception.                           *)

ToolError(prefix, cause) ==
    [kind |-> "error", exception |-> "ToolError", prefix |-> prefix, cause |-> cause]

BackendException == "backend_exception"

(* The brokerage's account state for one instrument: the quantity held and *)
(* the orders not yet filled or cancelled                                  *)
Instrument == "005930"
QuietBackend == [held |-> 0, orders |-> <<>>]

MaxTasks == 2         \* invocations in progress at once
Slots == 1..MaxTasks
NoTask == [op |-> "none", plan |-> <<>>, step |-> 0, call |-> "none", outcome |-> "none"]

Init ==
    /\ pc = "idle"
    /\ args = NoArgs
    /\ locals = NoLocals
    /\ outcome = NoOutcome
    /\ calls = <<>>
    /\ placed = 0
    /\ submitted = 0
    /\ backend = QuietBackend
    /\ history = <<QuietBackend>>
    /\ tasks = [i \in Slots |-> NoTask]
    /\ loop = 0

(* The invocation is over: the dispatcher takes the next request *)
Return ==
    /\ pc = "done"
    /\ pc' = "idle"
    /\ args' = NoArgs
    /\ locals' = NoLocals
    /\ outcome' = NoOutcome
    /\ calls' = <<>>
    /\ UNCHANGED <<placed, submitted>>
    /\ UNCHANGED env

----------------------------------------------------------------------------
(* get_sellable_quantity *)

Holdings == [symbol : Symbols, quantity : 0..MaxQty]
BalanceStocks == SeqsUpTo(Holdings, MaxHoldings)

(* The fields of a pending order that get_sellable_quantity reads *)
SellableOrders == [symbol : Symbols, type : {"buy", "sell"}, pending_qty : 0..MaxQty]
SellableSnapshots == SeqsUpTo(SellableOrders, MaxOrders)

(* for stock_item in balance.stocks: if symbol == stock_code: ...; break *)
RECURSIVE TotalQuantityFrom(_, _, _)
TotalQuantityFrom(stocks, stock_code, i) ==
    IF i > Len(stocks) THEN 0
    ELSE IF stocks[i].symbol = stock_code THEN stocks[i].quantity
    ELSE TotalQuantityFrom(stocks, stock_code, i + 1)

TotalQuantity(stocks, stock_code) == TotalQuantityFrom(stocks, stock_code, 1)

CountsAsPendingSell_AnySide(order_item, stock_code) ==
    order_item.symbol = stock_code

(* A pending order counts when it is a sell order of the requested code *)
CountsAsPendingSell(order_item, stock_code) ==
    order_item.symbol = stock_code /\ order_item.type = "sell"

(* for order_item in pending_orders_iter: pending_sell_quantity += pending_qty *)
RECURSIVE PendingSellQuantityFrom(_, _, _, _)
PendingSellQuantityFrom(orders, stock_code, i, acc) ==
    IF i > Len(orders) THEN acc
    ELSE PendingSellQuantityFrom(orders, stock_code, i + 1,
            IF CountsAsPendingSell(orders[i], stock_code)
            THEN acc + orders[i].pending_qty ELSE acc)

PendingSellQuantity(orders, stock_code) ==
    PendingSellQuantityFrom(orders, stock_code, 1, 0)

SellableResult_NoClamp(stock_code, total_quantity, pending_sell_quantity) ==
    [kind |-> "ok",
     stock_code |-> stock_code,
     total_quantity |-> total_quantity,
     sellable_quantity |-> total_quantity - pending_sell_quantity,
     pending_sell_quantity |-> pending_sell_quantity]

SellableResult(stock_code, total_quantity, pending_sell_quantity) ==
    [kind |-> "ok",
     stock_code |-> stock_code,
     total_quantity |-> total_quantity,
     sellable_quantity |-> Max(0, total_quantity - pending_sell_quantity),
     pending_sell_quantity |-> pending_sell_quantity]

SellablePrefix == "get_sellable_quantity"

(* Start of the handler, up to `await asyncio.to_thread(account.balance)` *)
SellableInvoke ==
    /\ pc = "idle"
    /\ \E stock_code \in Symbols :
        args' = [op |-> "get_sellable_quantity", stock_code |-> stock_code]
    /\ pc' = "sellable_balance"
    /\ locals' = NoLocals
    /\ outcome' = NoOutcome
    /\ calls' = <<[fn |-> "balance"]>>
    /\ UNCHANGED <<placed, submitted>>
    /\ UNCHANGED env

(* account.balance returned: scan the holdings, then issue account.pending_orders *)
SellableBalanceReturn ==
    /\ pc = "sellable_balance"
    /\ \E stocks \in BalanceStocks :
        locals' = [at |-> "sellable",
                   stocks |-> stocks,
                   total_quantity |-> TotalQuantity(stocks, args.stock_code)]
    /\ pc' = "sellable_pending"
    /\ calls' = Append(calls, [fn |-> "pending_orders"])
    /\ UNCHANGED <<args, outcome, placed, submitted>>
    /\ UNCHANGED env

(* account.pending_orders returned: sum the pending sells and return *)
SellablePendingReturn ==
    /\ pc = "sellable_pending"
    /\ \E orders \in SellableSnapshots :
        /\ locals' = [locals EXCEPT !.at = "sellable_done"] @@ [orders |-> orders]
        /\ outcome' = SellableResult(args.stock_code, locals.total_quantity,
                                     PendingSellQuantity(orders, args.stock_code))
    /\ pc' = "done"
    /\ UNCHANGED <<args, calls, placed, submitted>>
    /\ UNCHANGED env

(* Either backend call raised: except Exception -> ToolError *)
SellableBackendFail ==
    /\ pc \in {"sellable_balance", "sellable_pending"}
    /\ outcome' = ToolError(SellablePrefix, BackendException)
    /\ pc' = "done"
    /\ UNCHANGED <<args, locals, calls, placed, submitted>>
    /\ UNCHANGED env

NextSellable ==
    \/ SellableInvoke
    \/ SellableBalanceReturn
    \/ SellablePendingReturn
    \/ SellableBackendFail
    \/ Return

SpecSellable == Init /\ [][NextSellable]_vars

(* C1: when get_sellable_quantity returns, with q the quantity of the first *)
(* holding of the snapshot whose symbol is the requested code (0 when none) *)
(* and p the sum of pending_qty over the snapshot's sell orders of that     *)
(* code, the result has total_quantity = q, pending_sell_quantity = p and   *)
(* sellable_quantity = q - p when that is positive and 0 otherwise; buy     *)
(* orders and orders of other codes do not enter p.                         *)
RECURSIVE SumPendingQty(_, _)
SumPendingQty(orders, I) ==
    IF I = {} THEN 0
    ELSE LET i == CHOOSE x \in I : TRUE
         IN orders[i].pending_qty + SumPendingQty(orders, I \ {i})

SellableDone ==
    pc = "done" /\ args.op = "get_sellable_quantity" /\ outcome.kind = "ok"

FirstHeld(stocks, code) ==
    LET M == {i \in DOMAIN stocks : stocks[i].symbol = code}
    IN IF M = {} THEN 0
       ELSE stocks[CHOOSE i \in M : \A j \in M : i <= j].quantity

PendingSold(orders, code) ==
    SumPendingQty(orders, {i \in DOMAIN orders :
                              orders[i].symbol = code /\ orders[i].type = "sell"})

C1_SellableQuantity ==
    SellableDone =>
        LET q == FirstHeld(locals.stocks, args.stock_code)
            p == PendingSold(locals.orders, args.stock_code)
        IN /\ outcome.total_quantity = q
           /\ outcome.pending_sell_quantity = p
           /\ outcome.sellable_quantity = (IF q - p > 0 THEN q - p ELSE 0)
           /\ (p > q => outcome.sellable_quantity = 0)

(* The stale-snapshot case: more pending sells than held, beside a pending  *)
(* buy of the same code that is not counted.                                *)
C1_Witness ==
    /\ SellableDone
    /\ outcome.pending_sell_quantity > outcome.total_quantity
    /\ outcome.sellable_quantity = 0
    /\ \E i \in DOMAIN locals.orders :
          /\ locals.orders[i].symbol = args.stock_code
          /\ locals.orders[i].type = "buy"
          /\ locals.orders[i].pending_qty > 0

----------------------------------------------------------------------------
(* get_sellable_quantity against a brokerage whose state moves: orders are *)
(* submitted, filled and cancelled there at any time, also between the two *)
(* fetches of one call.                                                    *)

MaxBackendSteps == 2  \* changes of the backend state while one call runs

RemoveAt(seq, i) == SubSeq(seq, 1, i - 1) \o SubSeq(seq, i + 1, Len(seq))

(* History of the backend: restarted while no call runs *)
Recorded(b) == IF pc = "idle" THEN <<b>> ELSE Append(history, b)

BackendMayMove ==
    \/ pc = "idle"
    \/ pc \in {"sellable_balance", "sellable_pending"} /\ Len(history) <= MaxBackendSteps

BackendFrame ==
    UNCHANGED <<pc, args, locals, outcome, calls, placed, submitted, tasks, loop>>

(* An order for one share of the instrument is accepted *)
BackendSubmit ==
    /\ BackendMayMove
    /\ Len(backend.orders) < MaxOrders
    /\ \E type \in {"buy", "sell"} :
        backend' = [backend EXCEPT !.orders =
                        Append(@, [symbol |-> Instrument, type |-> type, pending_qty |-> 1])]
    /\ history' = Recorded(backend')
    /\ BackendFrame

(* A pending order is filled: a sell takes a share out, a buy brings one in *)
BackendFill ==
    /\ BackendMayMove
    /\ \E i \in DOMAIN backend.orders :
        /\ IF backend.orders[i].type = "sell" THEN backend.held >= 1
           ELSE backend.held < MaxQty
        /\ backend' = [held |-> IF backend.orders[i].type = "sell"
                                THEN backend.held - 1 ELSE backend.held + 1,
                       orders |-> RemoveAt(backend.orders, i)]
    /\ history' = Recorded(backend')
    /\ BackendFrame

(* A pending order is cancelled *)
BackendCancel ==
    /\ BackendMayMove
    /\ \E i \in DOMAIN backend.orders :
        backend' = [backend EXCEPT !.orders = RemoveAt(@, i)]
    /\ history' = Recorded(backend')
    /\ BackendFrame

(* balance.stocks of the backend's present state *)
BackendStocks(b) ==
    IF b.held > 0 THEN <<[symbol |-> Instrument, quantity |-> b.held]>> ELSE <<>>

(* The two fetches answer from the backend's state at the time they return *)
SnapshotBalanceReturn ==
    /\ SellableBalanceReturn
    /\ locals'.stocks = BackendStocks(backend)

SnapshotPendingReturn ==
    /\ SellablePendingReturn
    /\ locals'.orders = backend.orders

NextSnapshot ==
    \/ SellableInvoke
    \/ SnapshotBalanceReturn
    \/ SnapshotPendingReturn
    \/ SellableBackendFail
    \/ BackendSubmit
    \/ BackendFill
    \/ BackendCancel

SpecSnapshot == Init /\ [][NextSnapshot]_vars

SellableOf(b, code) ==
    LET q == FirstHeld(BackendStocks(b), code)
        p == PendingSold(b.orders, code)
    IN IF q - p > 0 THEN q - p ELSE 0

(* C15 as stated: the sellable_quantity returned is that of some single    *)
(* backend state that existed between the start and the end of the call.   *)
C15_SingleStateAsStated ==
    SellableDone =>
        \E i \in DOMAIN history :
            outcome.sellable_quantity = SellableOf(history[i], args.stock_code)

(* C15 amended: the result combines the held quantity of the backend state *)
(* at the balance fetch with the pending sells of the same or a later      *)
(* state, at the pending-order fetch, as max(0, held - pendingSell); it is *)
(* the value of a single backend state when the backend did not change     *)
(* during the call.                                                        *)
C15_TwoFetches ==
    SellableDone =>
        /\ \E i \in DOMAIN history : \E j \in DOMAIN history :
            /\ i <= j
            /\ outcome.total_quantity =
                    FirstHeld(BackendStocks(history[i]), args.stock_code)
            /\ outcome.pending_sell_quantity =
                    PendingSold(history[j].orders, args.stock_code)
            /\ outcome.sellable_quantity =
                    (IF outcome.total_quantity - outcome.pending_sell_quantity > 0
                     THEN outcome.total_quantity - outcome.pending_sell_quantity
                     ELSE 0)
        /\ Len(history) = 1 =>
            outcome.sellable_quantity = SellableOf(history[1], args.stock_code)

(* A fill between the two fetches: the value returned is that of no        *)
(* backend state of the call                                               *)
C15_Witness ==
    /\ SellableDone
    /\ Len(history) >= 2
    /\ \A i \in DOMAIN history :
            outcome.sellable_quantity # SellableOf(history[i], args.stock_code)

----------------------------------------------------------------------------
(* get_buyable_amount *)

None == <<>>
Some(v) == <<v>>
IsNone(x) == x = <<>>
ValueOf(x) == x[1]

(* int(x / d) for d > 0: Python's int() truncates toward zero *)
IntTrunc(n, d) == IF n >= 0 THEN n \div d ELSE -((-n) \div d)

BuyablePrefix == "get_buyable_amount"

(* A division by a zero price would raise inside the handler's try block *)
BuyableResult_Unguarded(stock_code, available_cash, price) ==
    IF price = 0 THEN ToolError(BuyablePrefix, "ZeroDivisionError")
    ELSE [kind |-> "ok",
          stock_code |-> stock_code,
          buyable_cash |-> available_cash,
          buyable_quantity |-> IntTrunc(available_cash, price),
          reference_price |-> price,
          max_buyable_amount |-> available_cash]

(* buyable_quantity = int(available_cash / price) if price > 0 else 0 *)
BuyableResult(stock_code, available_cash, price) ==
    [kind |-> "ok",
     stock_code |-> stock_code,
     buyable_cash |-> available_cash,
     buyable_quantity |-> IF price > 0 THEN IntTrunc(available_cash, price) ELSE 0,
     reference_price |-> price,
     max_buyable_amount |-> available_cash]

(* Start of the handler, up to `await asyncio.to_thread(account.balance)`;  *)
(* the price argument is None or an integer >= 0 (Field(ge=0)).             *)
BuyableInvoke ==
    /\ pc = "idle"
    /\ \E stock_code \in Symbols, price \in {None} \cup {Some(v) : v \in 0..MaxPrice} :
        args' = [op |-> "get_buyable_amount", stock_code |-> stock_code, price |-> price]
    /\ pc' = "buyable_balance"
    /\ locals' = NoLocals
    /\ outcome' = NoOutcome
    /\ calls' = <<[fn |-> "balance"]>>
    /\ UNCHANGED <<placed, submitted>>
    /\ UNCHANGED env

(* account.balance returned: with a price, compute and return; without,     *)
(* issue stock.quote                                                        *)
BuyableBalanceReturn ==
    /\ pc = "buyable_balance"
    /\ \E withdrawable_amount \in 0..MaxCash :
        /\ locals' = [at |-> "buyable", available_cash |-> withdrawable_amount]
        /\ IF IsNone(args.price)
           THEN /\ pc' = "buyable_quote"
                /\ calls' = Append(calls, [fn |-> "quote"])
                /\ outcome' = outcome
           ELSE /\ pc' = "done"
                /\ calls' = calls
                /\ outcome' = BuyableResult(args.stock_code, withdrawable_amount,
                                            ValueOf(args.price))
    /\ UNCHANGED <<args, placed, submitted>>
    /\ UNCHANGED env

(* stock.quote returned: price = int(quote.price), compute and return *)
BuyableQuoteReturn ==
    /\ pc = "buyable_quote"
    /\ \E quote_price \in 0..MaxPrice :
        /\ locals' = [locals EXCEPT !.at = "buyable_quoted"] @@ [quote_price |-> quote_price]
        /\ outcome' = BuyableResult(args.stock_code, locals.available_cash,
                                    IntTrunc(quote_price, 1))
    /\ pc' = "done"
    /\ UNCHANGED <<args, calls, placed, submitted>>
    /\ UNCHANGED env

BuyableBackendFail ==
    /\ pc \in {"buyable_balance", "buyable_quote"}
    /\ outcome' = ToolError(BuyablePrefix, BackendException)
    /\ pc' = "done"
    /\ UNCHANGED <<args, locals, calls, placed, submitted>>
    /\ UNCHANGED env

NextBuyable ==
    \/ BuyableInvoke
    \/ BuyableBalanceReturn
    \/ BuyableQuoteReturn
    \/ BuyableBackendFail
    \/ Return

SpecBuyable == Init /\ [][NextBuyable]_vars

(* C2: when get_buyable_amount ends, with cash the withdrawable amount and  *)
(* ref the price argument when given and the quote price otherwise:         *)
(* buyable_quantity is the floor of cash / ref when ref > 0 (the k with     *)
(* k * ref <= cash < (k + 1) * ref) and 0 when ref = 0; the handler raises  *)
(* only when a backend call raised, never because ref = 0.  Cash ranges     *)
(* over the non-negative withdrawable amounts.                              *)
BuyableDone == pc = "done" /\ args.op = "get_buyable_amount"

ReferencePrice == IF IsNone(args.price) THEN locals.quote_price ELSE ValueOf(args.price)

----------------------------------------------------------------------------
(* get_market_status *)

(* datetime.time(h, m) as a count of ticks since midnight *)
time(h, m) == (h * 60 + m) * TicksPerMinute

TicksPerDay == 24 * 60 * TicksPerMinute

premarket_start == time(8, 30)
market_open == time(9, 0)
market_close == time(15, 30)
aftermarket_end == time(18, 0)

(* now.weekday(): Monday = 0 ... Sunday = 6 *)
Weekdays == 0..6

is_weekend_SundayOnly(weekday) == weekday >= 6

is_weekend(weekday) == weekday >= 5

is_trading_day(weekday) == ~is_weekend(weekday)

market_status(weekday, current_time) ==
    IF ~is_trading_day(weekday) THEN "closed"
    ELSE IF current_time < premarket_start THEN "closed"
    ELSE IF premarket_start <= current_time /\ current_time < market_open THEN "premarket"
    ELSE IF market_open <= current_time /\ current_time < market_close THEN "open"
    ELSE IF market_close <= current_time /\ current_time < aftermarket_end THEN "aftermarket"
    ELSE "closed"

(* The whole handler: it reads the clock and awaits nothing *)
get_market_status ==
    /\ pc = "idle"
    /\ \E weekday \in Weekdays, current_time \in 0..(TicksPerDay - 1) :
        /\ args' = [op |-> "get_market_status", weekday |-> weekday,
                    current_time |-> current_time]
        /\ outcome' = [kind |-> "ok",
                       is_trading_day |-> is_trading_day(weekday),
                       market_status |-> market_status(weekday, current_time)]
    /\ pc' = "done"
    /\ calls' = <<>>
    /\ UNCHANGED <<locals, placed, submitted>>
    /\ UNCHANGED env

NextMarket ==
    \/ get_market_status
    \/ Return

SpecMarket == Init /\ [][NextMarket]_vars

(* C3: get_market_status yields exactly one of the four phases for every    *)
(* weekday and time of day: closed all Saturday and Sunday; Monday to       *)
(* Friday premarket for 08:30 <= t < 09:00, open for 09:00 <= t < 15:30,    *)
(* aftermarket for 15:30 <= t < 18:00, closed before 08:30 and from 18:00.  *)
MarketDone == pc = "done" /\ args.op = "get_market_status"

MinuteOfDay(t) == t \div TicksPerMinute

C3_MarketStatus ==
    MarketDone =>
        LET d == args.weekday
            m == MinuteOfDay(args.current_time)
            ph == outcome.market_status
        IN /\ outcome.kind = "ok"
           /\ ph \in {"closed", "premarket", "open", "aftermarket"}
           /\ d \in {5, 6} => ph = "closed"
           /\ d \in 0..4 =>
                /\ ph = "premarket" <=> (510 <= m /\ m < 540)
                /\ ph = "open" <=> (540 <= m /\ m < 930)
                /\ ph = "aftermarket" <=> (930 <= m /\ m < 1080)
                /\ ph = "closed" <=> (m < 510 \/ m >= 1080)

(* Saturday during what would be regular hours *)
C3_Witness ==
    /\ MarketDone
    /\ args.weekday = 5
    /\ MinuteOfDay(args.current_time) = 555
    /\ outcome.market_status = "closed"

----------------------------------------------------------------------------
(* place_stock_order *)

OrderNumbers == {"X1", "X2"}

(* What stock.buy / stock.sell hands back: no object, or a KisOrder with   *)
(* its number (absent, empty or an identifier) and its pending flag        *)
OrderResults ==
    {None} \cup {Some([number |-> n, pending |-> b]) :
                    n \in {None, Some("")} \cup {Some(x) : x \in OrderNumbers},
                    b \in BOOLEAN}

(* Python truthiness of a str | None *)
Truthy(str) == ~IsNone(str) /\ ValueOf(str) # ""

PlacePrefix == "place_stock_order"

(* order_method == "limit" and price is not None and price > 0 *)
IsLimitPriced_AnyPrice(order_method, price) ==
    order_method = "limit" /\ ~IsNone(price)

IsLimitPriced(order_method, price) ==
    order_method = "limit" /\ ~IsNone(price) /\ ValueOf(price) > 0

(* The backend call of the four branches: stock.buy / stock.sell with      *)
(* qty and, on the limit branches, price                                   *)
SubmissionCall(stock_code, order_type, quantity, price, order_method) ==
    [fn |-> order_type,
     symbol |-> stock_code,
     qty |-> quantity,
     price |-> IF IsLimitPriced(order_method, price) THEN price ELSE None]

IsSubmission(call) == call.fn \in {"buy", "sell"}

PlaceStatus_Inverted(is_pending) ==
    IF is_pending THEN "executed_or_failed_or_unknown" ELSE "pending"

PlaceStatus(is_pending) ==
    IF is_pending THEN "pending" ELSE "executed_or_failed_or_unknown"

MsgSubmitted == "order_submitted"
MsgFailedOrNoNumber == "submission_failed_or_no_order_number"

(* The dict returned when order_result is truthy *)
PlaceResult(a, order_result) ==
    [kind |-> "ok",
     order_id |-> order_result.number,
     stock_code |-> a.stock_code,
     order_type |-> a.order_type,
     order_method |-> a.order_method,
     quantity |-> a.quantity,
     price |-> IF a.order_method = "limit" /\ ~IsNone(a.price)
               THEN [kind |-> "price", value |-> ValueOf(a.price)]
               ELSE [kind |-> "market"],
     status |-> PlaceStatus(order_result.pending),
     message |-> IF Truthy(order_result.number) THEN MsgSubmitted
                 ELSE MsgFailedOrNoNumber]

(* except Exception as e: raise ToolError(...) -- the handler gives up *)
OnSubmitException_Retry(a) ==
    [pc |-> "place_submit",
     outcome |-> NoOutcome,
     calls |-> <<SubmissionCall(a.stock_code, a.order_type, a.quantity,
                                a.price, a.order_method)>>]

OnSubmitException(a) ==
    [pc |-> "done",
     outcome |-> ToolError(PlacePrefix, BackendException),
     calls |-> <<>>]

(* Start of the handler: pick the branch and issue the submission *)
PlaceInvoke ==
    /\ pc = "idle"
    /\ placed < MaxInvocations
    /\ \E stock_code \in Symbols, order_type \in {"buy", "sell"},
          quantity \in 1..MaxOrderQty,
          price \in {None} \cup {Some(v) : v \in 0..MaxPrice},
          order_method \in {"limit", "market"} :
        /\ args' = [op |-> "place_stock_order", stock_code |-> stock_code,
                    order_type |-> order_type, quantity |-> quantity,
                    price |-> price, order_method |-> order_method]
        /\ calls' = <<SubmissionCall(stock_code, order_type, quantity, price,
                                     order_method)>>
    /\ pc' = "place_submit"
    /\ locals' = NoLocals
    /\ outcome' = NoOutcome
    /\ placed' = placed + 1
    /\ submitted' = submitted + 1
    /\ UNCHANGED env

(* The submission returned: normalise the result *)
PlaceSubmitReturn ==
    /\ pc = "place_submit"
    /\ \E order_result \in OrderResults :
        /\ locals' = [at |-> "place_returned", order_result |-> order_result]
        /\ outcome' = IF ~IsNone(order_result)
                      THEN PlaceResult(args, ValueOf(order_result))
                      ELSE ToolError(PlacePrefix, "no_order_object")
    /\ pc' = "done"
    /\ UNCHANGED <<args, calls, placed, submitted>>
    /\ UNCHANGED env

(* The submission raised *)
PlaceSubmitFail ==
    /\ pc = "place_submit"
    /\ LET r == OnSubmitException(args)
       IN /\ pc' = r.pc
          /\ outcome' = r.outcome
          /\ calls' = calls \o r.calls
          /\ submitted' = submitted + Len(r.calls)
    /\ locals' = [at |-> "place_raised"]
    /\ UNCHANGED <<args, placed>>
    /\ UNCHANGED env

NextPlace ==
    \/ PlaceInvoke
    \/ PlaceSubmitReturn
    \/ PlaceSubmitFail
    \/ Return

SpecPlace == Init /\ [][NextPlace]_vars

PlaceActive == args.op = "place_stock_order"

PlaceReturned == pc = "done" /\ PlaceActive /\ locals.at = "place_returned"

(* C4: a place_stock_order invocation submits through stock.buy for a buy   *)
(* request and stock.sell for a sell request, with the requested quantity;  *)
(* the submission carries the price exactly when the method is limit and    *)
(* the price is present and > 0; a limit request without a positive price   *)
(* goes out without a price and is not rejected by the handler.             *)
C4_Dispatch ==
    PlaceActive =>
        /\ Len(calls) >= 1
        /\ calls[1].fn = args.order_type
        /\ calls[1].symbol = args.stock_code
        /\ calls[1].qty = args.quantity
        /\ IF args.order_method = "limit" /\ args.price # None /\ ValueOf(args.price) > 0
           THEN calls[1].price = args.price
           ELSE calls[1].price = None
        /\ (PlaceReturned /\ locals.order_result # None) => outcome.kind = "ok"

(* A limit sell with price 0 went out as a market order and was accepted *)
C4_Witness ==
    /\ PlaceReturned
    /\ args.order_type = "sell"
    /\ args.order_method = "limit"
    /\ args.price = Some(0)
    /\ calls[1].fn = "sell"
    /\ calls[1].price = None
    /\ outcome.kind = "ok"

(* The backend handed back an order object whose number is non-empty *)
PlaceReturnedWithNumber ==
    /\ PlaceReturned
    /\ locals.order_result # None
    /\ Truthy(ValueOf(locals.order_result).number)

(* C5 as stated: with a non-empty identifier the result carries it, the     *)
(* status is pending exactly when the backend's pending flag is true, and   *)
(* otherwise the status is executed_or_unknown, returned normally.          *)
C5_StatusAsStated ==
    PlaceReturnedWithNumber =>
        LET r == ValueOf(locals.order_result)
        IN /\ outcome.kind = "ok"
           /\ outcome.order_id = r.number
           /\ outcome.status = "pending" <=> r.pending
           /\ ~r.pending => outcome.status = "executed_or_unknown"

(* C5 amended: the same, the status of a result whose pending flag is false *)
(* being executed_or_failed_or_unknown.                                     *)
C5_Status ==
    PlaceReturnedWithNumber =>
        LET r == ValueOf(locals.order_result)
        IN /\ outcome.kind = "ok"
           /\ outcome.order_id = r.number
           /\ outcome.status = "pending" <=> r.pending
           /\ ~r.pending => outcome.status = "executed_or_failed_or_unknown"

(* Identifier X1 with the pending flag false *)
C5_Witness ==
    /\ PlaceReturnedWithNumber
    /\ ValueOf(locals.order_result).number = Some("X1")
    /\ ~ValueOf(locals.order_result).pending
    /\ outcome.kind = "ok"
    /\ outcome.status # "pending"

(* C6: when the submission's result has no order identifier (no object, or  *)
(* an absent or empty number), the invocation signals the failure (it       *)
(* raises, or at the least says so in its message) and reports neither a    *)
(* successful submission nor a pending order.                               *)
C6_EmptyIdentifierFails ==
    (PlaceReturned /\ ~PlaceReturnedWithNumber) =>
        /\ outcome.kind = "error" \/ outcome.message = MsgFailedOrNoNumber
        /\ outcome.kind = "ok" => outcome.message # MsgSubmitted
        /\ outcome.kind = "ok" => outcome.status # "pending"

(* C10: every place_stock_order invocation issues at most one submission,  *)
(* whatever the backend does with it, so the backend has received at most  *)
(* as many submissions as there were invocations.                          *)
C10_NoRetry ==
    /\ submitted <= placed
    /\ PlaceActive => Cardinality({i \in DOMAIN calls : IsSubmission(calls[i])}) <= 1

(* The second invocation's submission raised and was not repeated *)
C10_Witness ==
    /\ pc = "done"
    /\ PlaceActive
    /\ locals.at = "place_raised"
    /\ outcome.kind = "error"
    /\ placed = 2
    /\ submitted = 2

(* C13: the result of an accepted order reports the price the way the     *)
(* order went out: "market" when the submission carried no price (method   *)
(* market, or a limit request degraded to market for want of a positive    *)
(* price), and the submitted price when it carried one.                    *)
C13_ReportedPrice ==
    PlaceReturnedWithNumber =>
        IF calls[1].price = None
        THEN outcome.price = [kind |-> "market"]
        ELSE outcome.price = [kind |-> "price", value |-> ValueOf(calls[1].price)]

----------------------------------------------------------------------------
(* cancel_stock_order *)

(* The fields of a pending order that cancel_stock_order reads *)
CancelOrders == [number : OrderNumbers, pending : BOOLEAN]
CancelSnapshots == SeqsUpTo(CancelOrders, MaxSnapshot)

CancelPrefix == "cancel_stock_order"

(* for order_obj in pending_orders_iter: if number == order_id: target =    *)
(* order_obj; break -- the index of the target, 0 for None                  *)
RECURSIVE TargetFrom(_, _, _)
TargetFrom(orders, order_id, i) ==
    IF i > Len(orders) THEN 0
    ELSE IF orders[i].number = order_id THEN i
    ELSE TargetFrom(orders, order_id, i + 1)

(* The same loop without its break: the last match *)
RECURSIVE TargetNoBreakFrom(_, _, _, _)
TargetNoBreakFrom(orders, order_id, i, found) ==
    IF i > Len(orders) THEN found
    ELSE TargetNoBreakFrom(orders, order_id, i + 1,
                           IF orders[i].number = order_id THEN i ELSE found)

target_order_NoBreak(orders, order_id) == TargetNoBreakFrom(orders, order_id, 1, 0)

target_order(orders, order_id) == TargetFrom(orders, order_id, 1)

(* if target_order and target_order.pending / elif target_order / else *)
CancelBranch_NoElse(orders, t) ==
    IF t # 0 /\ orders[t].pending THEN "cancel" ELSE "not_cancellable"

CancelBranch_IgnorePending(orders, t) ==
    IF t # 0 THEN "cancel" ELSE "not_found"

CancelBranch(orders, t) ==
    IF t # 0 /\ orders[t].pending THEN "cancel"
    ELSE IF t # 0 THEN "not_cancellable"
    ELSE "not_found"

CancelResult(order_id, status) ==
    [kind |-> "ok", order_id |-> order_id, status |-> status]

(* Start of the handler, up to `await asyncio.to_thread(account.pending_orders)` *)
CancelInvoke ==
    /\ pc = "idle"
    /\ \E order_id \in OrderNumbers :
        args' = [op |-> "cancel_stock_order", order_id |-> order_id]
    /\ pc' = "cancel_fetch"
    /\ locals' = NoLocals
    /\ outcome' = NoOutcome
    /\ calls' = <<[fn |-> "pending_orders"]>>
    /\ UNCHANGED <<placed, submitted>>
    /\ UNCHANGED env

(* The snapshot arrived: resolve the target and take one of the branches *)
CancelFetchReturn ==
    /\ pc = "cancel_fetch"
    /\ \E orders \in CancelSnapshots :
        LET t == target_order(orders, args.order_id)
            branch == CancelBranch(orders, t)
        IN /\ locals' = [at |-> "cancel_resolved", orders |-> orders, target |-> t]
           /\ IF branch = "cancel"
              THEN /\ pc' = "cancel_request"
                   /\ calls' = Append(calls, [fn |-> "cancel", target |-> t])
                   /\ outcome' = outcome
              ELSE /\ pc' = "done"
                   /\ calls' = calls
                   /\ outcome' = IF branch = "not_cancellable"
                                 THEN CancelResult(args.order_id, "not_cancellable")
                                 ELSE ToolError(CancelPrefix, "not_found")
    /\ UNCHANGED <<args, placed, submitted>>
    /\ UNCHANGED env

(* target_order.cancel returned *)
CancelRequestReturn ==
    /\ pc = "cancel_request"
    /\ locals' = [locals EXCEPT !.at = "cancel_returned"]
    /\ outcome' = CancelResult(args.order_id, "cancelled")
    /\ pc' = "done"
    /\ UNCHANGED <<args, calls, placed, submitted>>
    /\ UNCHANGED env

(* account.pending_orders or target_order.cancel raised *)
CancelBackendFail ==
    /\ pc \in {"cancel_fetch", "cancel_request"}
    /\ locals' = [locals EXCEPT !.at = "cancel_raised"]
    /\ outcome' = ToolError(CancelPrefix, BackendException)
    /\ pc' = "done"
    /\ UNCHANGED <<args, calls, placed, submitted>>
    /\ UNCHANGED env

NextCancel ==
    \/ CancelInvoke
    \/ CancelFetchReturn
    \/ CancelRequestReturn
    \/ CancelBackendFail
    \/ Return

SpecCancel == Init /\ [][NextCancel]_vars

(* The running cancel_stock_order has received its snapshot *)
HasSnapshot == args.op = "cancel_stock_order" /\ "orders" \in DOMAIN locals

Matches == {i \in DOMAIN locals.orders : locals.orders[i].number = args.order_id}

FirstMatch == CHOOSE i \in Matches : \A j \in Matches : i <= j

CancelCalls == {i \in DOMAIN calls : calls[i].fn = "cancel"}

(* C7: when no order of the fetched snapshot has the requested identifier  *)
(* (an empty snapshot included), cancel_stock_order ends with a ToolError  *)
(* saying the order was not found, returns no result and issues no cancel  *)
(* request.                                                                *)
C7_NotFound ==
    (HasSnapshot /\ Matches = {}) =>
        /\ pc = "done"
        /\ outcome.kind = "error"
        /\ outcome.exception = "ToolError"
        /\ outcome.cause = "not_found"
        /\ CancelCalls = {}

(* A non-empty snapshot without the requested identifier *)
C7_Witness ==
    /\ HasSnapshot
    /\ Matches = {}
    /\ Len(locals.orders) >= 1
    /\ pc = "done"
    /\ outcome.kind = "error"

(* C8: when the matching order (the first one with the identifier) has     *)
(* pending = false, cancel_stock_order returns status not_cancellable as a *)
(* normal result and issues no cancel request.                             *)
C8_NotCancellable ==
    (HasSnapshot /\ Matches # {} /\ ~locals.orders[FirstMatch].pending) =>
        /\ pc = "done"
        /\ outcome = CancelResult(args.order_id, "not_cancellable")
        /\ CancelCalls = {}

(* The requested order is in the snapshot, no longer pending, behind       *)
(* another order                                                           *)
C8_Witness ==
    /\ HasSnapshot
    /\ Matches # {}
    /\ FirstMatch >= 2
    /\ ~locals.orders[FirstMatch].pending
    /\ pc = "done"
    /\ outcome.kind = "ok"
    /\ outcome.status = "not_cancellable"

(* C9: when the snapshot holds the requested identifier, the target is the *)
(* first order that has it; if that order is pending, exactly one cancel   *)
(* request is issued, for that order; nothing is reported while the        *)
(* request is in flight, status cancelled is reported only once it has     *)
(* returned, and a request that raised ends in an error.                   *)
C9_CancelFirstPending ==
    /\ (HasSnapshot /\ Matches # {}) => locals.target = FirstMatch
    /\ (HasSnapshot /\ Matches # {} /\ locals.orders[FirstMatch].pending) =>
        /\ Cardinality(CancelCalls) = 1
        /\ \A i \in CancelCalls : calls[i].target = FirstMatch
        /\ pc = "cancel_request" => outcome = NoOutcome
        /\ locals.at = "cancel_raised" => outcome.kind = "error"
        /\ locals.at = "cancel_returned" =>
                outcome = CancelResult(args.order_id, "cancelled")
    /\ (args.op = "cancel_stock_order" /\ outcome.kind = "ok"
            /\ outcome.status = "cancelled") =>
        /\ locals.at = "cancel_returned"
        /\ Cardinality(CancelCalls) = 1

(* Two orders carry the identifier; the first, pending, was cancelled *)
C9_Witness ==
    /\ HasSnapshot
    /\ Cardinality(Matches) >= 2
    /\ locals.orders[FirstMatch].pending
    /\ \E i \in Matches : ~locals.orders[i].pending
    /\ pc = "done"
    /\ outcome = CancelResult(args.order_id, "cancelled")

----------------------------------------------------------------------------
(* get_stock_chart *)

MaxCount == 2         \* largest count argument (the tool accepts 1..100)
MaxCandles == 3       \* candles in a chart the backend returns

Periods == {"day", "week", "month"}

(* A candle, reduced to its closing price *)
Candles == [close : 0..1]
Charts == SeqsUpTo(Candles, MaxCandles)

ChartPrefix == "get_stock_chart"

(* The three branches on period all call stock.chart with no argument *)
ChartCall(period) ==
    IF period = "day" THEN [fn |-> "chart", period |-> None]
    ELSE IF period = "week" THEN [fn |-> "chart", period |-> None]
    ELSE [fn |-> "chart", period |-> None]

(* list(chart_data)[:count] *)
Slice(chart_data, count) ==
    SubSeq(chart_data, 1, IF Len(chart_data) < count THEN Len(chart_data) ELSE count)

ChartResult(stock_code, period, count, chart_data) ==
    [kind |-> "ok",
     stock_code |-> stock_code,
     period |-> period,
     data |-> IF chart_data # <<>> THEN Slice(chart_data, count) ELSE <<>>]

(* Start of the handler, up to `await asyncio.to_thread(stock.chart)` *)
ChartInvoke ==
    /\ pc = "idle"
    /\ \E stock_code \in Symbols, period \in Periods, count \in 1..MaxCount :
        /\ args' = [op |-> "get_stock_chart", stock_code |-> stock_code,
                    period |-> period, count |-> count]
        /\ calls' = <<ChartCall(period)>>
    /\ pc' = "chart_fetch"
    /\ locals' = NoLocals
    /\ outcome' = NoOutcome
    /\ UNCHANGED <<placed, submitted>>
    /\ UNCHANGED env

(* stock.chart returned: keep the first count candles *)
ChartReturn ==
    /\ pc = "chart_fetch"
    /\ \E chart_data \in Charts :
        /\ locals' = [at |-> "chart_returned", chart_data |-> chart_data]
        /\ outcome' = ChartResult(args.stock_code, args.period, args.count, chart_data)
    /\ pc' = "done"
    /\ UNCHANGED <<args, calls, placed, submitted>>
    /\ UNCHANGED env

ChartBackendFail ==
    /\ pc = "chart_fetch"
    /\ outcome' = ToolError(ChartPrefix, BackendException)
    /\ pc' = "done"
    /\ UNCHANGED <<args, locals, calls, placed, submitted>>
    /\ UNCHANGED env

NextChart ==
    \/ ChartInvoke
    \/ ChartReturn
    \/ ChartBackendFail
    \/ Return

SpecChart == Init /\ [][NextChart]_vars

(* C14: the chart request get_stock_chart sends names the period it was    *)
(* asked for (a request without a period standing for daily candles at     *)
(* most), and the result echoes the period with at most count candles.     *)
C14_ChartPeriod ==
    args.op = "get_stock_chart" =>
        /\ \/ calls[1].period = Some(args.period)
           \/ (args.period = "day" /\ calls[1].period = None)
        /\ (pc = "done" /\ outcome.kind = "ok") =>
                /\ outcome.period = args.period
                /\ Len(outcome.data) <= args.count

----------------------------------------------------------------------------
(* The event loop with several invocations in progress.  Here a handler is *)
(* reduced to its control skeleton: the backend calls it awaits, in order, *)
(* and how it ends.  kis.account(), kis.stock() and reads of attributes of *)
(* the objects a call returned are local computation of the handler.       *)

Tools ==
    {"get_account_balance", "get_stock_quote", "place_stock_order",
     "get_pending_orders", "cancel_stock_order", "get_buyable_amount",
     "get_sellable_quantity", "get_stock_orderbook", "get_stock_chart",
     "get_period_profit_loss", "get_daily_executions", "get_market_status"}

(* A read-only tool that also submits an order *)
Plans_BuyableSubmits(op) ==
    CASE op = "get_account_balance" -> {<<"balance">>}
      [] op = "get_stock_quote" -> {<<"quote">>}
      [] op = "place_stock_order" -> {<<"buy">>, <<"sell">>}
      [] op = "get_pending_orders" -> {<<"pending_orders">>}
      [] op = "cancel_stock_order" -> {<<"pending_orders">>, <<"pending_orders", "cancel">>}
      [] op = "get_buyable_amount" -> {<<"balance">>, <<"balance", "buy">>}
      [] op = "get_sellable_quantity" -> {<<"balance", "pending_orders">>}
      [] op = "get_stock_orderbook" -> {<<"orderbook">>}
      [] op = "get_stock_chart" -> {<<"chart">>}
      [] op = "get_period_profit_loss" -> {<<"profits">>}
      [] op = "get_daily_executions" -> {<<"daily_orders">>}
      [] OTHER -> {<<>>}

(* The sequences of backend calls a handler can make, one per path through *)
(* its branches                                                            *)
Plans(op) ==
    CASE op = "get_account_balance" -> {<<"balance">>}
      [] op = "get_stock_quote" -> {<<"quote">>}
      [] op = "place_stock_order" -> {<<"buy">>, <<"sell">>}
      [] op = "get_pending_orders" -> {<<"pending_orders">>}
      [] op = "cancel_stock_order" -> {<<"pending_orders">>, <<"pending_orders", "cancel">>}
      [] op = "get_buyable_amount" -> {<<"balance">>, <<"balance", "quote">>}
      [] op = "get_sellable_quantity" -> {<<"balance", "pending_orders">>}
      [] op = "get_stock_orderbook" -> {<<"orderbook">>}
      [] op = "get_stock_chart" -> {<<"chart">>}
      [] op = "get_period_profit_loss" -> {<<"profits">>}
      [] op = "get_daily_executions" -> {<<"daily_orders">>}
      [] OTHER -> {<<>>}

(* How a handler ends once its calls have all returned: with its result,   *)
(* or with the ToolError it raises itself (order not found, no order       *)
(* object)                                                                 *)
FinalOutcomes(op, plan) ==
    IF op = "cancel_stock_order" /\ plan = <<"pending_orders">> THEN {"ok", "ToolError"}
    ELSE IF op = "place_stock_order" THEN {"ok", "ToolError"}
    ELSE {"ok"}

(* A call made directly on the event loop thread *)
OffLoaded_QuoteInline(op, fn) == fn # "quote"

(* Every backend call is made as `await asyncio.to_thread(...)` *)
OffLoaded(op, fn) == TRUE

(* An exception that escapes the handler as it is *)
ExceptOutcome_Unwrapped(op) ==
    IF op = "get_pending_orders" THEN "Exception" ELSE "ToolError"

(* except Exception as e: raise ToolError(...), in every handler *)
ExceptOutcome(op) == "ToolError"

LoopFrame ==
    UNCHANGED <<pc, args, locals, outcome, calls, placed, submitted, backend, history>>

(* The handler of slot i issues the k-th call of its plan and awaits it *)
Issue(i, op, plan, k) ==
    /\ tasks' = [tasks EXCEPT ![i] = [op |-> op, plan |-> plan, step |-> k,
                                      call |-> "running", outcome |-> "none"]]
    /\ loop' = IF OffLoaded(op, plan[k]) THEN 0 ELSE i

(* A request arrives: the loop runs its handler up to the first await *)
TaskInvoke(i) ==
    /\ tasks[i] = NoTask
    /\ loop = 0
    /\ \E op \in Tools : \E plan \in Plans(op) :
        IF plan = <<>>
        THEN /\ tasks' = [tasks EXCEPT ![i] = [op |-> op, plan |-> plan, step |-> 0,
                                               call |-> "none", outcome |-> "ok"]]
             /\ UNCHANGED loop
        ELSE Issue(i, op, plan, 1)
    /\ LoopFrame

(* The backend call of slot i returns *)
CallReturns(i) ==
    /\ tasks[i].call = "running"
    /\ tasks' = [tasks EXCEPT ![i].call = "returned"]
    /\ UNCHANGED loop
    /\ LoopFrame

(* The backend call of slot i raises *)
CallRaises(i) ==
    /\ tasks[i].call = "running"
    /\ tasks' = [tasks EXCEPT ![i].call = "raised"]
    /\ UNCHANGED loop
    /\ LoopFrame

Resumable(i) == tasks[i].call \in {"returned", "raised"} /\ tasks[i].outcome = "none"

(* The loop runs the handler of slot i on from its await *)
TaskResume(i) ==
    /\ Resumable(i)
    /\ loop \in {0, i}
    /\ LET t == tasks[i]
       IN IF t.call = "raised"
          THEN /\ tasks' = [tasks EXCEPT ![i].outcome = ExceptOutcome(t.op)]
               /\ loop' = 0
          ELSE IF t.step < Len(t.plan)
          THEN Issue(i, t.op, t.plan, t.step + 1)
          ELSE /\ \E out \in FinalOutcomes(t.op, t.plan) :
                    tasks' = [tasks EXCEPT ![i].outcome = out]
               /\ loop' = 0
    /\ LoopFrame

(* The result or the error goes back to the caller; the slot is free *)
TaskFinish(i) ==
    /\ tasks[i].outcome # "none"
    /\ loop = 0
    /\ tasks' = [tasks EXCEPT ![i] = NoTask]
    /\ UNCHANGED loop
    /\ LoopFrame

NextLoop ==
    \E i \in Slots :
        \/ TaskInvoke(i)
        \/ CallReturns(i)
        \/ CallRaises(i)
        \/ TaskResume(i)
        \/ TaskFinish(i)

SpecLoop == Init /\ [][NextLoop]_vars

(* The event loop runs a ready continuation whenever it is free *)
SpecLoopFair == SpecLoop /\ \A i \in Slots : WF_vars(TaskResume(i))

(* The slot's invocation has ended because a backend call of its raised *)
Failed(i) == tasks[i].call = "raised" /\ tasks[i].outcome # "none"

(* The step in which the handler of slot i handles the exception of its call *)
HandlesFailure(i) == tasks[i].call = "raised" /\ tasks[i].outcome = "none" /\ tasks'[i] # tasks[i]

(* C11: an exception of a backend call ends exactly the invocation that    *)
(* made the call, with a ToolError and nothing else (no result, no further *)
(* call); in that step every other invocation in progress is left as it    *)
(* is and the event loop is free, so invocations before, beside and after  *)
(* it run as they would without it.                                        *)
C11_FailureIsolated ==
    /\ [](\A i \in Slots : Failed(i) => tasks[i].outcome = "ToolError")
    /\ [][\A i \in Slots :
            HandlesFailure(i) =>
                /\ tasks'[i] = [tasks[i] EXCEPT !.outcome = "ToolError"]
                /\ \A j \in Slots \ {i} : tasks'[j] = tasks[j]
                /\ loop' = 0]_vars

(* One invocation has failed in its second call while another, on a *)
(* different tool, has returned its result                          *)
C11_Witness ==
    \E i, j \in Slots :
        /\ i # j
        /\ Failed(i) /\ tasks[i].step = 2 /\ tasks[i].outcome = "ToolError"
        /\ tasks[j].outcome = "ok" /\ tasks[j].call = "returned"
        /\ tasks[j].op # tasks[i].op

Waiting(i) == tasks[i].call = "running"
Completed(i) == tasks[i].outcome # "none"
InProgress(i) == tasks[i].op # "none" /\ ~Completed(i)

(* Whatever the loop has to do for slot j, it can do now *)
CanProceed(j) ==
    /\ tasks[j] = NoTask => ENABLED TaskInvoke(j)
    /\ Resumable(j) => ENABLED TaskResume(j)
    /\ Completed(j) => ENABLED TaskFinish(j)

(* C12: a backend call runs off the event loop thread, so while one        *)
(* invocation waits for a call that has not returned the loop is free and  *)
(* every other invocation can start, go on past its own calls and finish;  *)
(* and an invocation in progress completes unless one of its own calls     *)
(* never returns, whatever the other invocations are waiting for.          *)
C12_NotSerialized ==
    /\ [](\A i \in Slots : Waiting(i) => (loop = 0 /\ \A j \in Slots \ {i} : CanProceed(j)))
    /\ \A i \in Slots : []<>(~InProgress(i)) \/ <>[]Waiting(i)

(* One invocation still waits for its first call while another, started on *)
(* a different tool, has made two backend calls and returned its result    *)
C12_Witness ==
    \E i, j \in Slots :
        /\ i # j
        /\ Waiting(i) /\ tasks[i].step = 1
        /\ tasks[j].outcome = "ok" /\ tasks[j].step = 2
        /\ tasks[j].op # tasks[i].op

ReadOnlyTools ==
    {"get_account_balance", "get_stock_quote", "get_pending_orders",
     "get_buyable_amount", "get_sellable_quantity", "get_stock_orderbook",
     "get_stock_chart", "get_period_profit_loss", "get_daily_executions",
     "get_market_status"}

(* The backend calls the invocation of slot i has issued so far *)
Issued(i) == {tasks[i].plan[k] : k \in 1..tasks[i].step}

(* C16: in every interleaving of invocations, an order submission (buy or  *)
(* sell) is issued by place_stock_order only and a cancel call by          *)
(* cancel_stock_order only; the ten read-only tools issue neither; and a   *)
(* slot whose invocation has ended keeps nothing of it for the next one.   *)
C16_ReadOnly ==
    \A i \in Slots :
        /\ Issued(i) \cap {"buy", "sell"} # {} => tasks[i].op = "place_stock_order"
        /\ "cancel" \in Issued(i) => tasks[i].op = "cancel_stock_order"
        /\ tasks[i].op \in ReadOnlyTools => Issued(i) \cap {"buy", "sell", "cancel"} = {}
        /\ tasks[i].op = "none" => tasks[i] = NoTask

(* A read-only invocation has made both of its calls and returned while a *)
(* place_stock_order invocation beside it has submitted an order          *)
C16_Witness ==
    \E i, j \in Slots :
        /\ tasks[i].op \in ReadOnlyTools /\ tasks[i].step = 2 /\ tasks[i].outcome = "ok"
        /\ tasks[j].op = "place_stock_order" /\ Issued(j) \cap {"buy", "sell"} # {}

----------------------------------------------------------------------------
(* All tools behind the one dispatcher *)

Next ==
    \/ SellableInvoke
    \/ SellableBalanceReturn
    \/ SellablePendingReturn
    \/ SellableBackendFail
    \/ BuyableInvoke
    \/ BuyableBalanceReturn
    \/ BuyableQuoteReturn
    \/ BuyableBackendFail
    \/ get_market_status
    \/ PlaceInvoke
    \/ PlaceSubmitReturn
    \/ PlaceSubmitFail
    \/ CancelInvoke
    \/ CancelFetchReturn
    \/ CancelRequestReturn
    \/ CancelBackendFail
    \/ ChartInvoke
    \/ ChartReturn
    \/ ChartBackendFail
    \/ Return

Spec == Init /\ [][Next]_vars

====
